---- MODULE Spec2Model ----
(***************************************************************************)
(* A model of src/services/geminiService.ts.                              *)
(*                                                                         *)
(*   SpecRetry  retryGeminiCall (the retry/backoff loop) and the callers   *)
(*              that wrap it: a direct invocation with arbitrary           *)
(*              parameters, generateStationQuestionFromImage,              *)
(*              generateMCQQuestions, analyzeResultWithOtter and           *)
(*              chatWithOtter.                                             *)
(*   SpecPack   the content packer of generateMCQQuestions: the three      *)
(*              addContentParts calls and the final trigger prompt.        *)
(*   SpecTwo    two invocations of retryGeminiCall in flight at once, their *)
(*              steps interleaved at the awaits.                           *)
(*                                                                         *)
(* Strings.  TLC cannot look inside a string, so a message or a response   *)
(* text is a sequence of tokens and String.prototype.includes(marker) is   *)
(* membership of the marker token (Includes).  Matching is case sensitive  *)
(* as in JavaScript: "Quota" and "quota" are different tokens.  The        *)
(* Vietnamese texts are written without diacritics.  The text of a file    *)
(* item is kept symbolically: item k of a category, cut to its first n     *)
(* characters.                                                             *)
(***************************************************************************)
EXTENDS Integers, Sequences, FiniteSets, TLC

VARIABLES
    \* ---- retryGeminiCall and its caller
    caller,        \* who invoked retryGeminiCall: "direct", "station", "mcq", ...
    retries,       \* parameter retries
    initialDelay,  \* parameter initialDelay, doubled in place by the loop
    i,             \* loop counter
    lastError,     \* <<>> while undefined, else <<error>>
    pc,            \* position of the invocation
    outcomes,      \* history: what each invocation of call() settled to
    attempts,      \* history: number of invocations of call()
    delays,        \* history: the arguments of the completed wait(ms) calls
    delay0,        \* history: the value initialDelay was called with
    result,        \* how retryGeminiCall settled
    ret,           \* how the caller settled
    \* ---- the packer of generateMCQQuestions
    files,         \* [category -> sequence of ContentFile]
    sec,           \* index of the addContentParts call in progress
    k,             \* index of the item the for-of loop examines next
    currentChars,  \* running character counter of the current call
    parts,         \* the output array
    ppc,           \* position of the packer
    \* ---- two invocations of retryGeminiCall in flight
    calls          \* [invocation -> its parameters, locals and history]

retryVars == <<caller, retries, initialDelay, i, lastError, pc, outcomes,
               attempts, delays, delay0, result, ret>>
packVars == <<files, sec, k, currentChars, parts, ppc>>
vars == <<caller, retries, initialDelay, i, lastError, pc, outcomes,
          attempts, delays, delay0, result, ret,
          files, sec, k, currentChars, parts, ppc, calls>>

(***************************************************************************)
(* Bounds and program constants                                            *)
(***************************************************************************)
\* largest value of the parameter retries a direct invocation is given
MaxRetries == 3
\* largest number of file items over the three categories together
MaxItems == 4

DefaultRetries == 3
DefaultInitialDelay == 2000
LIMIT_THEORY_CHARS == 2400000
LIMIT_CLINICAL_CHARS == 1000000
LIMIT_SAMPLE_CHARS == 200000
\* currentChars += 50000 for a binary item
BinaryPenalty == 50000
\* length of the suffix appended at line 149 (63 UTF-16 code units)
TruncationSuffixLength == 63

\* values of initialDelay a direct invocation is given (initialDelayMs > 0)
InitialDelays == {1, 1000, DefaultInitialDelay}

(***************************************************************************)
(* Messages                                                                *)
(***************************************************************************)
\* String.prototype.includes on a tokenised string
Includes(message, marker) == \E n \in 1..Len(message) : message[n] = marker

\* the Error thrown at line 65
QuotaExceededMessage ==
    <<"Da", "het han muc", "su dung AI", "(", "Quota", "Exceeded", ").",
      "Vui long kiem tra goi cuoc hoac thu lai vao ngay mai.">>
\* the Error thrown at line 67
OverloadedMessage ==
    <<"He thong AI dang", "qua tai", ".", "Vui long thu lai sau vai giay.">>

\* new Error(message): no status property (status 0 stands for undefined)
NewError(message) == [status |-> 0, message |-> message]

\* what call() can reject with; a message <<>> is an absent or empty message
TransientErrors ==
    { [status |-> 429, message |-> <<>>],
      [status |-> 503, message |-> <<"The", "model", "is", "overloaded">>],
      [status |-> 0,   message |-> <<"You", "exceeded", "your", "quota">>],
      [status |-> 429, message |-> <<"RESOURCE_EXHAUSTED">>],
      [status |-> 0,   message |-> <<"got", "429", "Too Many Requests">>],
      [status |-> 0,   message |-> <<"Overloaded">>] }
FatalErrors ==
    { [status |-> 500, message |-> <<"Internal", "error">>],
      [status |-> 400, message |-> <<"input", "token count exceeds", "limit">>],
      [status |-> 0,   message |-> <<>>] }
FnErrors == TransientErrors \cup FatalErrors

\* response.text of the GenerateContentResponse call() resolves to
StationJson == "{isValid:true,questions:[q]}"
\* the markdown fence openers and closers the cleaning removes (three backquotes)
FenceJson == "[fence]json"
Fence == "[fence]"
ResponseTexts ==
    { <<>>,
      <<StationJson>>,
      <<FenceJson, StationJson, Fence>>,
      <<"Sorry,", "not", "json">>,
      <<"quota", "429">> }
Responses == {[text |-> t] : t \in ResponseTexts}

\* response.text of the responses generateMCQQuestions is given: nothing, a
\* question set bare, fenced, and fenced after a preamble, documents that are
\* no question set, and text that is no JSON
McqJson == "{questions:[q1,q2]}"
ResponseTextsMcq ==
    { <<>>,
      <<McqJson>>,
      <<FenceJson, McqJson, Fence>>,
      <<"Here you go:", FenceJson, McqJson, Fence, "Good luck">>,
      <<Fence, McqJson, Fence>>,
      <<"{isValid:false}">>,
      <<"{questions:7}">>,
      <<"null">>,
      <<"Sorry,", "not", "json">> }

\* response.text of the responses analyzeResultWithOtter is given
MentorJson == "{analysis:a,strengths:[s],weaknesses:[w],roadmap:[r]}"
ResponseTextsMentor ==
    { <<>>,
      <<MentorJson>>,
      <<FenceJson, MentorJson, Fence>>,
      <<"null">>,
      <<"Sorry,", "not", "json">>,
      <<"quota", "429">> }

\* response.text of the responses chatWithOtter is given
ResponseTextsChat == { <<>>, <<"The", "femur", "is", "a", "bone">>, <<"quota", "429">> }

\* the responses call() resolves to, by the caller that built the request
ResponsesFor(who) ==
    CASE who = "mcq" -> {[text |-> t] : t \in ResponseTextsMcq}
      [] who = "mentor" -> {[text |-> t] : t \in ResponseTextsMentor}
      [] who = "chat" -> {[text |-> t] : t \in ResponseTextsChat}
      [] OTHER -> Responses

NoValue == [text |-> <<"(none)">>]
NoError == [status |-> 0, message |-> <<"(none)">>]
Pending == [kind |-> "pending", value |-> NoValue, error |-> NoError]
Resolved(v) == [kind |-> "ok", value |-> v, error |-> NoError]
Rejected(e) == [kind |-> "err", value |-> NoValue, error |-> e]

(***************************************************************************)
(* retryGeminiCall                                                         *)
(***************************************************************************)
\* a variant that retries every 4xx/5xx status
IsRateLimitAnyStatus(error) ==
    \/ error.status >= 400
    \/ /\ error.message # <<>>
       /\ \/ Includes(error.message, "429")
          \/ Includes(error.message, "quota")
          \/ Includes(error.message, "RESOURCE_EXHAUSTED")
          \/ Includes(error.message, "Overloaded")

\* lines 41-49
IsRateLimit(error) ==
    \/ error.status = 429
    \/ error.status = 503
    \/ /\ error.message # <<>>
       /\ \/ Includes(error.message, "429")
          \/ Includes(error.message, "quota")
          \/ Includes(error.message, "RESOURCE_EXHAUSTED")
          \/ Includes(error.message, "Overloaded")

\* a variant with the loop condition i <= retries
LoopCondInclusive(iv, n) == iv <= n

\* line 34: the loop condition i < retries
LoopCond(iv, n) == iv < n

\* a variant that gives up one failure early
IsLastFailEarly(iv, n) == iv >= n - 2
\* a variant that never recognises the last failure
IsLastFailNever(iv, n) == iv = n

\* line 52: i === retries - 1
IsLastFail(iv, n) == iv = n - 1

\* line 55: initialDelay *= 2
NextDelay(d) == d * 2

\* line 63: lastError?.message || "Unknown error"
CleanMsg(le) ==
    IF le = <<>> \/ le[1].message = <<>> THEN <<"Unknown error">> ELSE le[1].message

\* a variant that tests the message for "quota" alone
TerminalErrorQuotaOnly(le) ==
    IF Includes(CleanMsg(le), "quota")
    THEN NewError(QuotaExceededMessage)
    ELSE NewError(OverloadedMessage)

\* lines 64-67: the error raised once the loop is left
TerminalError(le) ==
    IF \/ Includes(CleanMsg(le), "quota")
       \/ Includes(CleanMsg(le), "RESOURCE_EXHAUSTED")
    THEN NewError(QuotaExceededMessage)
    ELSE NewError(OverloadedMessage)

\* line 36: call() is invoked and awaited
CallFn ==
    /\ pc = "loop"
    /\ LoopCond(i, retries)
    /\ pc' = "awaitCall"
    /\ attempts' = attempts + 1
    /\ UNCHANGED <<caller, retries, initialDelay, i, lastError, outcomes,
                   delays, delay0, result, ret>>
    /\ UNCHANGED <<packVars, calls>>

\* line 36: call() resolved, its value is returned
FnResolve ==
    /\ pc = "awaitCall"
    /\ \E v \in ResponsesFor(caller) :
          /\ outcomes' = Append(outcomes, Resolved(v))
          /\ result' = Resolved(v)
    /\ pc' = "done"
    /\ UNCHANGED <<caller, retries, initialDelay, i, lastError, attempts,
                   delays, delay0, ret>>
    /\ UNCHANGED <<packVars, calls>>

\* lines 37-58: call() rejected
FnReject ==
    /\ pc = "awaitCall"
    /\ \E error \in FnErrors :
          /\ outcomes' = Append(outcomes, Rejected(error))
          /\ lastError' = <<error>>
          /\ IF IsRateLimit(error)
             THEN /\ pc' = IF IsLastFail(i, retries) THEN "exhausted" ELSE "wait"
                  /\ result' = result
             ELSE /\ pc' = "done"
                  /\ result' = Rejected(error)
    /\ UNCHANGED <<caller, retries, initialDelay, i, attempts, delays, delay0, ret>>
    /\ UNCHANGED <<packVars, calls>>

\* lines 54-55 and the i++ of line 34: the timer of wait(initialDelay) fired
WaitDone ==
    /\ pc = "wait"
    /\ delays' = Append(delays, initialDelay)
    /\ initialDelay' = NextDelay(initialDelay)
    /\ i' = i + 1
    /\ pc' = "loop"
    /\ UNCHANGED <<caller, retries, lastError, outcomes, attempts, delay0,
                   result, ret>>
    /\ UNCHANGED <<packVars, calls>>

\* line 34: the loop condition fails
LoopExit ==
    /\ pc = "loop"
    /\ ~LoopCond(i, retries)
    /\ pc' = "exhausted"
    /\ UNCHANGED <<caller, retries, initialDelay, i, lastError, outcomes,
                   attempts, delays, delay0, result, ret>>
    /\ UNCHANGED <<packVars, calls>>

\* lines 62-67
ThrowTerminal ==
    /\ pc = "exhausted"
    /\ result' = Rejected(TerminalError(lastError))
    /\ pc' = "done"
    /\ UNCHANGED <<caller, retries, initialDelay, i, lastError, outcomes,
                   attempts, delays, delay0, ret>>
    /\ UNCHANGED <<packVars, calls>>

retryGeminiCall == CallFn \/ FnResolve \/ FnReject \/ WaitDone \/ LoopExit \/ ThrowTerminal

(***************************************************************************)
(* generateStationQuestionFromImage, lines 314-366                         *)
(***************************************************************************)
NoStation == [isValid |-> FALSE, questions |-> <<"(none)">>]
NotSettled == [kind |-> "pending", value |-> NoStation, error |-> NoError]
Return(v) == [kind |-> "return", value |-> v, error |-> NoError]
Throw(e) == [kind |-> "throw", value |-> NoStation, error |-> e]

\* line 365
SafeDefault == [isValid |-> FALSE, questions |-> <<>>]

\* line 353: text.replace(/<fence>json/g, '').replace(/<fence>/g, '').trim()
IsNoFence(tok) == tok # FenceJson /\ tok # Fence
CleanFences(text) == SelectSeq(text, IsNoFence)

\* line 354, JSON.parse: the value a well-formed document parses to
ParsedStation == [isValid |-> TRUE, questions |-> <<"q">>]
IsJson(text) == text = <<StationJson>>

\* line 354, JSON.parse: the message of the SyntaxError it throws.  The wording
\* is the engine's: some engines quote the offending input in it, some do not.
SyntaxErrorMessages(text) ==
    IF text = <<>>
    THEN { <<"Unexpected end of JSON input">> }
    ELSE { <<"Unexpected token">>,
           <<"Unexpected token">> \o text \o <<"is not valid JSON">> }

\* line 361: the errors the catch block throws again
StationRethrows(e) ==
    /\ e.message # <<>>
    /\ \/ Includes(e.message, "qua tai")
       \/ Includes(e.message, "quota")
       \/ Includes(e.message, "429")

\* lines 357-366: the catch block
StationCatch(e) == IF StationRethrows(e) THEN Throw(e) ELSE Return(SafeDefault)

\* lines 352-366: what the function settles to once retryGeminiCall settled
StationSettle ==
    /\ caller = "station"
    /\ pc = "done"
    /\ \/ /\ result.kind = "ok"
          /\ IsJson(CleanFences(result.value.text))
          /\ ret' = Return(ParsedStation)
       \/ /\ result.kind = "ok"
          /\ ~IsJson(CleanFences(result.value.text))
          /\ \E m \in SyntaxErrorMessages(CleanFences(result.value.text)) :
                ret' = StationCatch(NewError(m))
       \/ /\ result.kind = "err"
          /\ ret' = StationCatch(result.error)
    /\ pc' = "returned"
    /\ UNCHANGED <<caller, retries, initialDelay, i, lastError, outcomes,
                   attempts, delays, delay0, result>>
    /\ UNCHANGED <<packVars, calls>>

(***************************************************************************)
(* generateMCQQuestions, lines 76 and 198-258                              *)
(***************************************************************************)
\* JSON.parse of a one-document text (line 228): whether the value is an
\* object (lines 234: truthy and typeof 'object') and whether its questions
\* property is an array (line 238)
JsonDocuments ==
    {McqJson, StationJson, MentorJson, "{isValid:false}", "{questions:7}", "null"}
IsJsonDocument(text) == Len(text) = 1 /\ text[1] \in JsonDocuments
JsonValue(d) ==
    [doc |-> d,
     isObject |-> d # "null",
     questionsIsArray |-> d \in {McqJson, StationJson}]

\* lines 217-224: the first block between a json fence and the next fence if
\* there is one (a fence opener begins with a fence, so it closes a block
\* too), else the text without its fences; trimmed
IsFence(tok) == tok = FenceJson \/ tok = Fence
FirstFence(text, from) ==
    CHOOSE n \in from..Len(text) :
       IsFence(text[n]) /\ \A m \in from..(n - 1) : ~IsFence(text[m])
McqClean(text) ==
    IF \E p \in 1..Len(text) :
          text[p] = FenceJson /\ \E q \in (p + 1)..Len(text) : IsFence(text[q])
    THEN LET p == CHOOSE n \in 1..Len(text) :
                     /\ text[n] = FenceJson
                     /\ \E q \in (n + 1)..Len(text) : IsFence(text[q])
                     /\ \A m \in 1..(n - 1) :
                           ~(text[m] = FenceJson /\ \E q \in (m + 1)..Len(text) : IsFence(text[q]))
         IN  SubSeq(text, p + 1, FirstFence(text, p + 1) - 1)
    ELSE CleanFences(text)

\* line 254
TooLargeMessage ==
    <<"Tong dung luong tai lieu qua lon vuot qua gioi han cua AI.",
      "Vui long bot file hoac dung file nho hon.">>

\* a variant of the catch block that answers an empty question set, as the
\* secondary features answer their defaults
McqCatchFallback(e) ==
    IF e.message # <<>> /\ (Includes(e.message, "qua tai") \/ Includes(e.message, "het han muc"))
    THEN Throw(e)
    ELSE Return(JsonValue("{questions:[]}"))

\* lines 244-258: the catch block
McqCatch(e) ==
    IF e.message # <<>> /\ (Includes(e.message, "qua tai") \/ Includes(e.message, "het han muc"))
    THEN Throw(e)
    ELSE IF e.message # <<>> /\ Includes(e.message, "token count exceeds")
    THEN Throw(NewError(TooLargeMessage))
    ELSE Throw(e)

\* lines 213-242: the body of the try block after retryGeminiCall resolved
McqParse(text) ==
    IF text = <<>>
    THEN McqCatch(NewError(<<"No response from AI">>))
    ELSE IF ~IsJsonDocument(McqClean(text))
    THEN McqCatch(NewError(<<"AI returned invalid JSON format. Please try again.">>))
    ELSE IF ~JsonValue(McqClean(text)[1]).isObject
    THEN McqCatch(NewError(<<"Invalid response structure">>))
    ELSE IF ~JsonValue(McqClean(text)[1]).questionsIsArray
    THEN McqCatch(NewError(<<"Response missing 'questions' array">>))
    ELSE Return(JsonValue(McqClean(text)[1]))

\* line 76: the API key is tested before anything else; it is read from the
\* environment when the module is loaded
McqStart ==
    /\ caller = "mcq"
    /\ pc = "start"
    /\ \/ /\ ret' = Throw(NewError(<<"API Key is missing">>))
          /\ pc' = "returned"
       \/ /\ ret' = ret
          /\ pc' = "loop"
    /\ UNCHANGED <<caller, retries, initialDelay, i, lastError, outcomes,
                   attempts, delays, delay0, result>>
    /\ UNCHANGED <<packVars, calls>>

\* lines 198-258: what the function settles to once retryGeminiCall settled
McqSettle ==
    /\ caller = "mcq"
    /\ pc = "done"
    /\ ret' = IF result.kind = "ok" THEN McqParse(result.value.text) ELSE McqCatch(result.error)
    /\ pc' = "returned"
    /\ UNCHANGED <<caller, retries, initialDelay, i, lastError, outcomes,
                   attempts, delays, delay0, result>>
    /\ UNCHANGED <<packVars, calls>>

(***************************************************************************)
(* analyzeResultWithOtter, lines 419-440, and chatWithOtter, lines 498-508 *)
(***************************************************************************)
\* lines 434-439
MentorFallback ==
    [analysis |-> <<"Ui cha! Rai ca dang ban bat ca nen khong phan tich duoc roi.">>,
     strengths |-> <<>>, weaknesses |-> <<>>, roadmap |-> <<>>]

\* a variant of the catch block that throws the rate-limit errors again, as
\* the station check does
MentorCatchRethrows(e) == IF StationRethrows(e) THEN Throw(e) ELSE Return(MentorFallback)

\* lines 432-440: the catch block
MentorCatch(e) == Return(MentorFallback)

\* lines 429-431: the cleaned text is parsed and the value returned
MentorParse(text) ==
    IF IsJsonDocument(CleanFences(text))
    THEN {Return(JsonValue(CleanFences(text)[1]))}
    ELSE {MentorCatch(NewError(m)) : m \in SyntaxErrorMessages(CleanFences(text))}

\* lines 419-440: what the function settles to once retryGeminiCall settled
MentorSettle ==
    /\ caller = "mentor"
    /\ pc = "done"
    /\ \/ /\ result.kind = "ok"
          /\ ret' \in MentorParse(result.value.text)
       \/ /\ result.kind = "err"
          /\ ret' = MentorCatch(result.error)
    /\ pc' = "returned"
    /\ UNCHANGED <<caller, retries, initialDelay, i, lastError, outcomes,
                   attempts, delays, delay0, result>>
    /\ UNCHANGED <<packVars, calls>>

\* line 504: the reply when response.text is empty
ChatEmptyReply == [text |-> <<"Rai ca dang boi di dau mat roi, khong tra loi duoc...">>]
\* line 507
ChatFallback == [text |-> <<"Ui! Mang bi nghen roi, Rai ca khong nghe ro. Ban hoi lai nhe?">>]

\* lines 505-508: the catch block
ChatCatch(e) == Return(ChatFallback)

\* lines 498-508: what the function settles to once retryGeminiCall settled
ChatSettle ==
    /\ caller = "chat"
    /\ pc = "done"
    /\ ret' = IF result.kind = "ok"
              THEN IF result.value.text = <<>>
                   THEN Return(ChatEmptyReply)
                   ELSE Return([text |-> result.value.text])
              ELSE ChatCatch(result.error)
    /\ pc' = "returned"
    /\ UNCHANGED <<caller, retries, initialDelay, i, lastError, outcomes,
                   attempts, delays, delay0, result>>
    /\ UNCHANGED <<packVars, calls>>

(***************************************************************************)
(* The packer of generateMCQQuestions, lines 125-196                       *)
(*                                                                         *)
(* A ContentFile is [isText, length, data]: length is content.length; the  *)
(* characters of a text item are symbolic (the segment emitted for it      *)
(* records how many of its first characters it carries), the content of a  *)
(* binary item is the token sequence data.                                 *)
(***************************************************************************)
\* a variant that packs the clinical files before the theory files
CategoriesClinicalFirst == <<"clinical", "theory", "sample">>

\* lines 174-193: the order of the three addContentParts calls
Categories == <<"theory", "clinical", "sample">>
CategorySet == {"theory", "clinical", "sample"}

\* lines 174-193: the charLimit each addContentParts call is given
CharLimit(c) ==
    CASE c = "theory" -> LIMIT_THEORY_CHARS
      [] c = "clinical" -> LIMIT_CLINICAL_CHARS
      [] c = "sample" -> LIMIT_SAMPLE_CHARS

TextItem(n) == [isText |-> TRUE, length |-> n, data |-> <<>>]
BinaryItem(d) == [isText |-> FALSE, length |-> 8 * Len(d), data |-> d]

\* the items a category of budget lim is given: texts that are empty, short,
\* short of the budget by one binary penalty, exactly the budget and one
\* character over it; a binary item as a data URL and as a bare payload
TextLengths(lim) == {0, 1, lim - BinaryPenalty, lim, lim + 1}
BinaryContents ==
    { <<"data:application/pdf;", "base64,", "JVBERi0x">>,
      <<"JVBERi0x">> }
ItemsFor(lim) ==
    {TextItem(n) : n \in TextLengths(lim)} \cup {BinaryItem(d) : d \in BinaryContents}

\* the elements of parts
Segment(kind, c, n, chars, suffix, data) ==
    [kind |-> kind, cat |-> c, item |-> n, chars |-> chars, suffix |-> suffix,
     mimeType |-> IF kind = "inline" THEN "application/pdf" ELSE "", data |-> data]
\* line 131
BeginMarker(c) == Segment("begin", c, 0, 0, FALSE, <<>>)
\* line 138
StopWarning(c) == Segment("warning", c, 0, 0, FALSE, <<>>)
\* line 170
EndMarker(c) == Segment("end", c, 0, 0, FALSE, <<>>)
\* line 196
TriggerPrompt == Segment("trigger", "", 0, 0, FALSE, <<>>)

\* a variant of the stop test with > in place of >=
LimitReachedStrict(chars, lim) == chars > lim

\* line 137: currentChars >= charLimit
LimitReached(chars, lim) == chars >= lim

\* a variant that forgets what the category has used already
RemainingWhole(lim, chars) == lim

\* line 146: remaining = charLimit - currentChars
Remaining(lim, chars) == lim - chars

\* a variant that cuts a text that fits exactly
TextToAddCutsExact(item, remaining) ==
    IF item.length >= remaining
    THEN [chars |-> remaining, suffix |-> TRUE]
    ELSE [chars |-> item.length, suffix |-> FALSE]

\* lines 145-150: textToAdd, the first chars characters of the item's
\* content, with the truncation suffix appended when the item was cut
\* (substring(0, remaining) of a longer string is its first remaining
\* characters)
TextToAdd(item, remaining) ==
    IF item.length > remaining
    THEN [chars |-> IF remaining < 0 THEN 0 ELSE remaining, suffix |-> TRUE]
    ELSE [chars |-> item.length, suffix |-> FALSE]

\* line 153: textToAdd.length
TextLength(t) == t.chars + (IF t.suffix THEN TruncationSuffixLength ELSE 0)

\* line 158: content.includes('base64,') ? content.split('base64,')[1] : content
FirstIndex(d, tok) == CHOOSE n \in 1..Len(d) : d[n] = tok /\ \A m \in 1..(n - 1) : d[m] # tok
Base64Data(d) ==
    IF ~Includes(d, "base64,")
    THEN d
    ELSE LET rest == SubSeq(d, FirstIndex(d, "base64,") + 1, Len(d))
         IN  IF Includes(rest, "base64,")
             THEN SubSeq(rest, 1, FirstIndex(rest, "base64,") - 1)
             ELSE rest

\* a variant in which the counter is not a local of the call: a category
\* goes on from what the category before it has used
InitialCharsCarried(prev) == prev

\* line 133: let currentChars = 0, a local of each addContentParts call
InitialChars(prev) == 0

\* lines 128-133: addContentParts is called for the next category
EnterSection ==
    /\ ppc = "section"
    /\ sec <= Len(Categories)
    /\ LET c == Categories[sec] IN
          IF files[c] = <<>>
          THEN /\ sec' = sec + 1
               /\ UNCHANGED <<parts, k, currentChars, ppc>>
          ELSE /\ parts' = Append(parts, BeginMarker(c))
               /\ currentChars' = InitialChars(currentChars)
               /\ k' = 1
               /\ ppc' = "items"
               /\ sec' = sec
    /\ UNCHANGED files
    /\ UNCHANGED <<retryVars, calls>>

\* lines 135-169: one iteration of the for-of loop
ExamineItem ==
    /\ ppc = "items"
    /\ k <= Len(files[Categories[sec]])
    /\ LET c == Categories[sec]
           item == files[c][k]
           t == TextToAdd(item, Remaining(CharLimit(c), currentChars))
       IN  IF LimitReached(currentChars, CharLimit(c))
           THEN /\ parts' = Append(parts, StopWarning(c))
                /\ ppc' = "close"
                /\ UNCHANGED <<k, currentChars>>
           ELSE /\ k' = k + 1
                /\ ppc' = ppc
                /\ IF item.length = 0
                   THEN UNCHANGED <<parts, currentChars>>
                   ELSE IF item.isText
                   THEN /\ parts' = Append(parts, Segment("file", c, k, t.chars, t.suffix, <<>>))
                        /\ currentChars' = currentChars + TextLength(t)
                   ELSE /\ parts' = Append(parts,
                                      Segment("inline", c, k, 0, FALSE, Base64Data(item.data)))
                        /\ currentChars' = currentChars + BinaryPenalty
    /\ UNCHANGED <<files, sec>>
    /\ UNCHANGED <<retryVars, calls>>

\* line 170: the loop is over (no item left, or break)
CloseSection ==
    /\ \/ ppc = "close"
       \/ ppc = "items" /\ k > Len(files[Categories[sec]])
    /\ parts' = Append(parts, EndMarker(Categories[sec]))
    /\ sec' = sec + 1
    /\ ppc' = "section"
    /\ UNCHANGED <<files, k, currentChars>>
    /\ UNCHANGED <<retryVars, calls>>

\* line 196
AddTrigger ==
    /\ ppc = "section"
    /\ sec > Len(Categories)
    /\ parts' = Append(parts, TriggerPrompt)
    /\ ppc' = "packed"
    /\ UNCHANGED <<files, sec, k, currentChars>>
    /\ UNCHANGED <<retryVars, calls>>

(***************************************************************************)
(* The packer is idle in SpecRetry, the retry loop is idle in SpecPack,    *)
(* and there is no second invocation in either                             *)
(***************************************************************************)
TwoIdle == calls = <<>>

PackIdle ==
    /\ files = [c \in CategorySet |-> <<>>]
    /\ sec = 0
    /\ k = 0
    /\ currentChars = 0
    /\ parts = <<>>
    /\ ppc = "idle"

\* the state in which retryGeminiCall is entered (lines 27-32)
Enter(who, n, d) ==
    /\ caller = who
    /\ retries = n
    /\ initialDelay = d
    /\ delay0 = d
    /\ i = 0
    /\ lastError = <<>>
    /\ pc = "loop"
    /\ outcomes = <<>>
    /\ attempts = 0
    /\ delays = <<>>
    /\ result = Pending
    /\ ret = NotSettled

\* an exported function that has not reached its retryGeminiCall yet; it
\* calls with the defaults (lines 199, 420, 499)
EnterAt(who, at) ==
    /\ caller = who
    /\ retries = DefaultRetries
    /\ initialDelay = DefaultInitialDelay
    /\ delay0 = DefaultInitialDelay
    /\ i = 0
    /\ lastError = <<>>
    /\ pc = at
    /\ outcomes = <<>>
    /\ attempts = 0
    /\ delays = <<>>
    /\ result = Pending
    /\ ret = NotSettled

\* a direct invocation takes any retries >= 0 and initialDelay > 0; the
\* station check calls with the defaults (line 318)
InitRetry ==
    /\ \/ \E n \in 0..MaxRetries : \E d \in InitialDelays : Enter("direct", n, d)
       \/ Enter("station", DefaultRetries, DefaultInitialDelay)
       \/ EnterAt("mcq", "start")
       \/ EnterAt("mentor", "loop")
       \/ EnterAt("chat", "loop")
    /\ PackIdle
    /\ TwoIdle

NextRetry ==
    \/ retryGeminiCall
    \/ StationSettle
    \/ McqStart
    \/ McqSettle
    \/ MentorSettle
    \/ ChatSettle

SpecRetry == InitRetry /\ [][NextRetry]_vars

RetryIdle ==
    /\ caller = "none"
    /\ retries = 0
    /\ initialDelay = 0
    /\ delay0 = 0
    /\ i = 0
    /\ lastError = <<>>
    /\ pc = "idle"
    /\ outcomes = <<>>
    /\ attempts = 0
    /\ delays = <<>>
    /\ result = Pending
    /\ ret = NotSettled

\* generateMCQQuestions is given up to MaxItems files over the three categories
InitPack ==
    /\ \E nt \in 0..MaxItems : \E nc \in 0..(MaxItems - nt) : \E ns \in 0..(MaxItems - nt - nc) :
          \E ft \in [1..nt -> ItemsFor(LIMIT_THEORY_CHARS)] :
          \E fc \in [1..nc -> ItemsFor(LIMIT_CLINICAL_CHARS)] :
          \E fs \in [1..ns -> ItemsFor(LIMIT_SAMPLE_CHARS)] :
             files = [c \in CategorySet |->
                        CASE c = "theory" -> ft [] c = "clinical" -> fc [] c = "sample" -> fs]
    /\ sec = 1
    /\ k = 0
    /\ currentChars = 0
    /\ parts = <<>>
    /\ ppc = "section"
    /\ RetryIdle
    /\ TwoIdle

NextPack == EnterSection \/ ExamineItem \/ CloseSection \/ AddTrigger

SpecPack == InitPack /\ [][NextPack]_vars

(***************************************************************************)
(* Two invocations of retryGeminiCall in flight, lines 25-68.  The         *)
(* parameters and locals of the function (retries, initialDelay, i,        *)
(* lastError) belong to an invocation; wait (line 25) makes a new timer    *)
(* per call.  An invocation yields at its awaits (lines 36 and 54), where  *)
(* the steps of the other one can run.                                     *)
(***************************************************************************)
Calls == {1, 2}
Other(p) == 3 - p

\* what call() of either invocation settles to: a response, a quota error, an
\* overload error, a Fatal error
TwoOutcomes ==
    { Resolved([text |-> <<StationJson>>]),
      Rejected([status |-> 0, message |-> <<"You", "exceeded", "your", "quota">>]),
      Rejected([status |-> 503, message |-> <<"The", "model", "is", "overloaded">>]),
      Rejected([status |-> 500, message |-> <<"Internal", "error">>]) }

\* lines 27-32: the frame of a fresh invocation
NewCall(n, d) ==
    [retries |-> n, initialDelay |-> d, delay0 |-> d, i |-> 0, lastError |-> <<>>,
     pc |-> "loop", outcomes |-> <<>>, attempts |-> 0, delays |-> <<>>,
     result |-> Pending, overlapped |-> FALSE]

\* a variant in which the delay is one module-level variable, that of the
\* first invocation
DelayOfShared(cs, p) == cs[1].initialDelay

\* lines 30, 54, 55: initialDelay is a parameter of the function, so each
\* invocation reads and doubles its own
DelayOf(cs, p) == cs[p].initialDelay

\* line 36: call() is invoked and awaited
TwoCallFn(p) ==
    /\ calls[p].pc = "loop"
    /\ LoopCond(calls[p].i, calls[p].retries)
    /\ calls' = [calls EXCEPT ![p].pc = "awaitCall", ![p].attempts = @ + 1]
    /\ UNCHANGED <<retryVars, packVars>>

\* line 36: call() resolved, its value is returned
TwoFnResolve(p) ==
    /\ calls[p].pc = "awaitCall"
    /\ \E o \in {x \in TwoOutcomes : x.kind = "ok"} :
          calls' = [calls EXCEPT ![p].outcomes = Append(@, o),
                                 ![p].result = o,
                                 ![p].pc = "done"]
    /\ UNCHANGED <<retryVars, packVars>>

\* lines 37-58: call() rejected
TwoFnReject(p) ==
    /\ calls[p].pc = "awaitCall"
    /\ \E o \in {x \in TwoOutcomes : x.kind = "err"} :
          calls' = [calls EXCEPT
                      ![p].outcomes = Append(@, o),
                      ![p].lastError = <<o.error>>,
                      ![p].pc = IF IsRateLimit(o.error)
                                THEN IF IsLastFail(calls[p].i, calls[p].retries)
                                     THEN "exhausted" ELSE "wait"
                                ELSE "done",
                      ![p].result = IF IsRateLimit(o.error) THEN @ ELSE o]
    /\ UNCHANGED <<retryVars, packVars>>

\* lines 54-55 and the i++ of line 34: the timer of wait(initialDelay) fired.
\* overlapped records that the other invocation was in flight at that time
TwoWaitDone(p) ==
    /\ calls[p].pc = "wait"
    /\ calls' = [calls EXCEPT
                   ![p].delays = Append(@, DelayOf(calls, p)),
                   ![p].initialDelay = NextDelay(DelayOf(calls, p)),
                   ![p].i = @ + 1,
                   ![p].pc = "loop",
                   ![p].overlapped = @ \/ (calls[Other(p)].attempts > 0
                                             /\ calls[Other(p)].pc # "done")]
    /\ UNCHANGED <<retryVars, packVars>>

\* line 34: the loop condition fails
TwoLoopExit(p) ==
    /\ calls[p].pc = "loop"
    /\ ~LoopCond(calls[p].i, calls[p].retries)
    /\ calls' = [calls EXCEPT ![p].pc = "exhausted"]
    /\ UNCHANGED <<retryVars, packVars>>

\* lines 62-67
TwoThrowTerminal(p) ==
    /\ calls[p].pc = "exhausted"
    /\ calls' = [calls EXCEPT ![p].result = Rejected(TerminalError(calls[p].lastError)),
                              ![p].pc = "done"]
    /\ UNCHANGED <<retryVars, packVars>>

\* the two invocations take any retries >= 0 and any of the initial delays
InitTwo ==
    /\ \E n1, n2 \in 0..MaxRetries : \E d1, d2 \in InitialDelays :
          calls = [p \in Calls |-> IF p = 1 THEN NewCall(n1, d1) ELSE NewCall(n2, d2)]
    /\ RetryIdle
    /\ PackIdle

NextTwo ==
    \E p \in Calls :
       \/ TwoCallFn(p)
       \/ TwoFnResolve(p)
       \/ TwoFnReject(p)
       \/ TwoWaitDone(p)
       \/ TwoLoopExit(p)
       \/ TwoThrowTerminal(p)

SpecTwo == InitTwo /\ [][NextTwo]_vars

(***************************************************************************)
(* Properties of retryGeminiCall (SpecRetry)                               *)
(***************************************************************************)
\* The classes of the specification: a Transient failure has status 429 or
\* 503 or a rate-limit/quota/overload marker in its message, every other
\* failure is Fatal.
IsTransientFailure(o) == o.kind = "err" /\ o.error \in TransientErrors
IsFatalFailure(o) == o.kind = "err" /\ o.error \in FatalErrors
IsSuccess(o) == o.kind = "ok"
AllTransient(os) == \A n \in 1..Len(os) : IsTransientFailure(os[n])
\* retryGeminiCall was invoked and has settled (generateMCQQuestions returns
\* without invoking it when the API key is missing)
Settled == pc \in {"done", "returned"} /\ result # Pending
\* retryGeminiCall left its loop and raised one of its two terminal errors
Exhausted == Settled /\ result.kind = "err" /\ AllTransient(outcomes)
\* the same, after at least one invocation of fn
ExhaustedByFailures == Exhausted /\ outcomes # <<>>

C3_FatalPropagates ==
    (outcomes # <<>> /\ IsFatalFailure(outcomes[Len(outcomes)]))
       => /\ Settled
          /\ result = outcomes[Len(outcomes)]
          /\ attempts = Len(outcomes)
          /\ Len(delays) = Len(outcomes) - 1
          /\ Len(outcomes) = 1 => attempts = 1 /\ delays = <<>>

C3_Witness ==
    /\ Len(outcomes) = 2
    /\ IsTransientFailure(outcomes[1])
    /\ IsFatalFailure(outcomes[2])
    /\ outcomes[2].error.status = 500
    /\ pc = "done"
    /\ Len(delays) = 1

\* C4, as claimed: when the remote call failed with Transient failures until
\* the retries were exhausted, generateStationQuestionFromImage throws,
\* whichever of the two terminal errors retryGeminiCall raised.
C4_Claim ==
    (caller = "station" /\ pc = "returned" /\ Exhausted) => ret.kind = "throw"

CatIndex(c) == CHOOSE n \in 1..Len(Categories) : Categories[n] = c
\* addContentParts has returned for category c
SectionDone(c) == ppc # "idle" /\ CatIndex(c) < sec
\* category c is the one addContentParts is working on
InSection(c) == ppc \in {"items", "close"} /\ Categories[sec] = c
\* the segments emitted for category c, in output order
SectionParts(c) == SelectSeq(parts, LAMBDA s : s.cat = c)
Kinds(ps) == [n \in 1..Len(ps) |-> ps[n].kind]
IsPrefix(a, b) == Len(a) <= Len(b) /\ a = SubSeq(b, 1, Len(a))
\* item-text characters of a sequence of segments: the emitted contents of
\* the text items with their truncation suffixes, without the framing
RECURSIVE TextChars(_)
TextChars(ps) ==
    IF ps = <<>> THEN 0
    ELSE (IF Head(ps).kind = "file" THEN TextLength(Head(ps)) ELSE 0) + TextChars(Tail(ps))
SuffixCount(ps) == Cardinality({n \in 1..Len(ps) : ps[n].suffix})
Max(a, b) == IF a >= b THEN a ELSE b
Min(a, b) == IF a <= b THEN a ELSE b

\* C5, as claimed: the running character counter of a category is at most
\* the category's budget after each item is processed.
C5_Original ==
    \A c \in CategorySet : InSection(c) => currentChars <= CharLimit(c)

\* C5, amended: the counter is at most the budget after a text item emitted
\* whole; after a text item that was cut it is the budget plus the length of
\* the truncation suffix, which is counted too; after a binary item it is
\* less than the budget plus the penalty of 50000.  It never exceeds the
\* budget by more than the larger of the two.
C5_Counter ==
    \A c \in CategorySet : InSection(c) =>
       LET last == parts[Len(parts)] IN
          /\ currentChars <= CharLimit(c) + Max(TruncationSuffixLength, BinaryPenalty - 1)
          /\ (last.kind = "file" /\ ~last.suffix) => currentChars <= CharLimit(c)
          /\ (last.kind = "file" /\ last.suffix)
                => currentChars = CharLimit(c) + TruncationSuffixLength
          /\ last.kind = "inline" => currentChars < CharLimit(c) + BinaryPenalty
          /\ last.kind = "begin" => currentChars = 0

C5_Witness ==
    /\ ppc = "items"
    /\ parts[Len(parts)].kind = "inline"
    /\ currentChars > CharLimit(Categories[sec])

\* C6: the item-text characters emitted for a category, truncation suffix
\* included, never exceed its budget plus the length of one truncation
\* suffix, and at most one item of a category is emitted with a suffix.
C6_TextBudget ==
    \A c \in CategorySet :
       /\ TextChars(SectionParts(c)) <= CharLimit(c) + TruncationSuffixLength
       /\ SuffixCount(SectionParts(c)) <= 1

C6_Witness ==
    /\ ppc = "packed"
    /\ \E c \in CategorySet :
          TextChars(SectionParts(c)) = CharLimit(c) + TruncationSuffixLength
    /\ \E c \in CategorySet :
          /\ SuffixCount(SectionParts(c)) = 1
          /\ \E n \in 1..Len(parts) : parts[n].cat = c /\ parts[n].kind = "inline"

\* a category whose first item is a text of at least the budget and which
\* has a further item
FirstFillsBudget(c) ==
    /\ Len(files[c]) >= 2
    /\ files[c][1].isText
    /\ files[c][1].length >= CharLimit(c)

\* C9: in such a category nothing of the second or a later item is emitted,
\* the loop stops when it examines the second item, and the output of the
\* category holds exactly one stop-warning segment (the truncation marker),
\* when the first item has exactly the budget and when it is longer: the
\* output is the begin marker, the first item, the warning, the end marker.
C9_StopsAtSecond ==
    \A c \in CategorySet : FirstFillsBudget(c) =>
       /\ IsPrefix(Kinds(SectionParts(c)), <<"begin", "file", "warning", "end">>)
       /\ \A n \in 1..Len(parts) :
             (parts[n].cat = c /\ parts[n].kind \in {"file", "inline"}) => parts[n].item = 1
       /\ (InSection(c) /\ ppc = "close") => k = 2
       /\ SectionDone(c) =>
             /\ Kinds(SectionParts(c)) = <<"begin", "file", "warning", "end">>
             /\ SectionParts(c)[2].chars = CharLimit(c)
             /\ SectionParts(c)[2].suffix = (files[c][1].length > CharLimit(c))

C9_Witness ==
    /\ ppc = "packed"
    /\ \E c \in CategorySet : FirstFillsBudget(c) /\ files[c][1].length = CharLimit(c)
    /\ \E c \in CategorySet : FirstFillsBudget(c) /\ files[c][1].length > CharLimit(c)

\* a category that holds a single text item
SingleText(c) == Len(files[c]) = 1 /\ files[c][1].isText
\* the output of a category for its single text item: one content segment
\* with the whole item, or with its first budget characters and the suffix
SingleOutput(c) ==
    <<BeginMarker(c),
      Segment("file", c, 1, Min(files[c][1].length, CharLimit(c)),
              files[c][1].length > CharLimit(c), <<>>),
      EndMarker(c)>>

\* C10, as claimed: for a single text item of any length L the category's
\* output is exactly one content segment (the whole item when L <= budget,
\* else its first budget characters and the suffix) and the end marker, and
\* no stop-warning.
C10_Original ==
    \A c \in CategorySet :
       (SingleText(c) /\ SectionDone(c)) => SectionParts(c) = SingleOutput(c)

\* C10, amended: the same for L >= 1; an empty text item (L = 0) emits no
\* content segment, the output is the begin marker and the end marker.
C10_SingleItem ==
    \A c \in CategorySet :
       (SingleText(c) /\ SectionDone(c)) =>
          /\ files[c][1].length >= 1 =>
                /\ SectionParts(c) = SingleOutput(c)
                /\ TextChars(SectionParts(c)) =
                      IF files[c][1].length <= CharLimit(c)
                      THEN files[c][1].length
                      ELSE CharLimit(c) + TruncationSuffixLength
          /\ files[c][1].length = 0 => SectionParts(c) = <<BeginMarker(c), EndMarker(c)>>

C10_Witness ==
    /\ ppc = "packed"
    /\ \E c \in CategorySet : SingleText(c) /\ files[c][1].length > CharLimit(c)
    /\ \E c \in CategorySet : SingleText(c) /\ files[c][1].length = CharLimit(c)
    /\ \E c \in CategorySet : SingleText(c) /\ files[c][1].length = 1

\* the position of a category in the order theory, clinical, sample
Rank(c) == CASE c = "theory" -> 1 [] c = "clinical" -> 2 [] c = "sample" -> 3 [] OTHER -> 4
\* the positions of parts that carry an item of category c
ItemSegments(c) ==
    {n \in 1..Len(parts) : parts[n].cat = c /\ parts[n].kind \in {"file", "inline"}}
\* the items of category c that have been emitted
EmittedItems(c) == {parts[n].item : n \in ItemSegments(c)}

\* C11: the output is ordered and prefix-closed.  The segments appear in the
\* category order theory, clinical, sample, those of one category next to
\* each other, opened by its begin marker and closed by its end marker.  In a
\* category the emitted items are in input order and are a prefix of the
\* input items that have content.  Only the last emitted item of a category
\* can be a cut text, and a cut text is a proper prefix of its item's content;
\* every other text is emitted whole.
C11_Ordered ==
    /\ \A n \in 1..(Len(parts) - 1) : Rank(parts[n].cat) <= Rank(parts[n + 1].cat)
    /\ \A c \in CategorySet :
          LET ps == SectionParts(c)
              segs == ItemSegments(c)
              emitted == {parts[n].item : n \in segs}
          IN
             /\ ps # <<>> =>
                   /\ ps[1].kind = "begin"
                   /\ \A n \in 2..Len(ps) : ps[n].kind # "begin"
                   /\ \A n \in 1..(Len(ps) - 1) : ps[n].kind # "end"
             /\ (Rank(c) < sec /\ files[c] # <<>>) => (ps # <<>> /\ ps[Len(ps)].kind = "end")
             /\ files[c] = <<>> => ps = <<>>
             /\ \A m, n \in segs : m < n => parts[m].item < parts[n].item
             /\ \A n \in emitted :
                   /\ n \in 1..Len(files[c])
                   /\ files[c][n].length > 0
                   /\ \A m \in 1..(n - 1) : files[c][m].length > 0 => m \in emitted
             /\ \A n \in segs :
                   LET item == files[c][parts[n].item] IN
                      /\ parts[n].kind = "file" <=> item.isText
                      /\ parts[n].suffix => \A m \in segs : m <= n
                      /\ parts[n].kind = "file" =>
                            IF parts[n].suffix
                            THEN parts[n].chars < item.length
                            ELSE parts[n].chars = item.length

C11_Witness ==
    /\ ppc = "packed"
    /\ Len(files["theory"]) = 2
    /\ files["theory"][1].length = 0
    /\ EmittedItems("theory") = {2}
    /\ Len(files["clinical"]) = 2
    /\ files["clinical"][2].length > 0
    /\ EmittedItems("clinical") = {1}
    /\ \E n \in ItemSegments("clinical") : parts[n].suffix

(***************************************************************************)
(* Properties of the callers of retryGeminiCall (SpecRetry)                *)
(***************************************************************************)
\* the remote call succeeded and the cleaned response text is no JSON document
StationParseFailed ==
    /\ caller = "station"
    /\ pc = "returned"
    /\ result.kind = "ok"
    /\ ~IsJson(CleanFences(result.value.text))

\* C12, as claimed: when the remote call succeeds and the response text fails
\* JSON parsing, whatever the text (empty, or mentioning quota or 429),
\* generateStationQuestionFromImage returns {isValid: false, questions: []}
\* and does not throw.
C12_Claim == StationParseFailed => ret = Return(SafeDefault)

\* the message of the last failed attempt mentions quota or RESOURCE_EXHAUSTED
LastMentionsQuota ==
    /\ outcomes # <<>>
    /\ \/ Includes(outcomes[Len(outcomes)].error.message, "quota")
       \/ Includes(outcomes[Len(outcomes)].error.message, "RESOURCE_EXHAUSTED")

\* C13: when retryGeminiCall ends because its retries are exhausted on
\* Transient failures it does not reject with the error of the last attempt:
\* it raises the quota-exhausted terminal error if and only if the message of
\* the last failed attempt contains "quota" or "RESOURCE_EXHAUSTED", and the
\* generic-overload terminal error in every other case (a 429 or 503 status
\* error without message among them).
C13_TerminalKind ==
    Exhausted =>
       /\ outcomes # <<>> => result # outcomes[Len(outcomes)]
       /\ result.error \notin FnErrors
       /\ result.error.message = QuotaExceededMessage <=> LastMentionsQuota
       /\ result.error.message = OverloadedMessage <=> ~LastMentionsQuota
       /\ result.error.status = 0

C13_Witness ==
    /\ Exhausted
    /\ Len(outcomes) = 2
    /\ Includes(outcomes[1].error.message, "quota")
    /\ outcomes[2].error = [status |-> 429, message |-> <<>>]
    /\ result.error.message = OverloadedMessage

\* the response texts that hold a question set: bare, in a json fence (with
\* or without text around the fence), in a plain fence
QuestionSetTexts ==
    { <<McqJson>>,
      <<FenceJson, McqJson, Fence>>,
      <<"Here you go:", FenceJson, McqJson, Fence, "Good luck">>,
      <<Fence, McqJson, Fence>> }

\* C14: generateMCQQuestions returns only when the remote call succeeded and
\* the cleaned response text parsed to an object with a questions array, and
\* then it returns that object; for every other outcome (Fatal failure,
\* exhausted Transient failures, empty response, unparsable JSON, a document
\* without questions array) it throws, never answering a fallback value; the
\* two terminal errors of retryGeminiCall reach the caller unchanged.
C14_McqThrows ==
    (caller = "mcq" /\ pc = "returned") =>
       /\ ret.kind \in {"return", "throw"}
       /\ ret.kind = "return" <=>
             (result.kind = "ok" /\ result.value.text \in QuestionSetTexts)
       /\ ret.kind = "return" =>
             (ret.value.doc = McqJson /\ ret.value.isObject /\ ret.value.questionsIsArray)
       /\ Exhausted =>
             /\ ret = Throw(result.error)
             /\ result.error.message \in {QuotaExceededMessage, OverloadedMessage}
       /\ (result.kind = "err" /\ ~Exhausted) =>
             /\ ret.kind = "throw"
             /\ ret.error = result.error \/ ret.error.message = TooLargeMessage

C14_Witness ==
    /\ caller = "mcq"
    /\ pc = "returned"
    /\ Exhausted
    /\ Len(outcomes) = 3
    /\ result.error.message = QuotaExceededMessage
    /\ ret = Throw(NewError(QuotaExceededMessage))

\* the response texts analyzeResultWithOtter cannot parse
UnparsableTexts == { <<>>, <<"Sorry,", "not", "json">>, <<"quota", "429">> }

\* C15: analyzeResultWithOtter and chatWithOtter never reject.  Whatever the
\* remote call did (success, Fatal failure, Transient failures exhausted with
\* either terminal error) and, for the mentor, whatever the response text,
\* they return a value, which is the fixed fallback of the function whenever
\* the call failed or, for the mentor, the response could not be parsed.
C15_NeverReject ==
    caller \in {"mentor", "chat"} =>
       /\ ret.kind # "throw"
       /\ pc = "returned" =>
             /\ ret.kind = "return"
             /\ result.kind = "err" =>
                   ret.value = IF caller = "mentor" THEN MentorFallback ELSE ChatFallback
             /\ (caller = "mentor" /\ result.kind = "ok"
                   /\ result.value.text \in UnparsableTexts)
                      => ret.value = MentorFallback
             /\ (caller = "mentor" /\ result.kind = "ok"
                   /\ result.value.text \notin UnparsableTexts)
                      => ret.value # MentorFallback
             /\ (caller = "chat" /\ result.kind = "ok") => ret.value # ChatFallback

C15_Witness ==
    /\ caller = "mentor"
    /\ pc = "returned"
    /\ Exhausted
    /\ Len(outcomes) = 3
    /\ result.error.message = OverloadedMessage
    /\ ret = Return(MentorFallback)

\* what addContentParts emits from item n on for category c when its counter
\* stands at chars and nothing else is known: the rest of a call that is
\* given the items alone
RECURSIVE AloneFrom(_, _, _, _)
AloneFrom(c, items, n, chars) ==
    IF n > Len(items) THEN <<EndMarker(c)>>
    ELSE IF LimitReached(chars, CharLimit(c)) THEN <<StopWarning(c), EndMarker(c)>>
    ELSE LET item == items[n]
             t == TextToAdd(item, Remaining(CharLimit(c), chars))
         IN  IF item.length = 0 THEN AloneFrom(c, items, n + 1, chars)
             ELSE IF item.isText
             THEN <<Segment("file", c, n, t.chars, t.suffix, <<>>)>>
                     \o AloneFrom(c, items, n + 1, chars + TextLength(t))
             ELSE <<Segment("inline", c, n, 0, FALSE, Base64Data(item.data))>>
                     \o AloneFrom(c, items, n + 1, chars + BinaryPenalty)
\* the segments of category c when it is packed alone, its counter from 0
Alone(c) == IF files[c] = <<>> THEN <<>> ELSE <<BeginMarker(c)>> \o AloneFrom(c, files[c], 1, 0)
HasWarning(c) == \E n \in 1..Len(parts) : parts[n].cat = c /\ parts[n].kind = "warning"

\* C16: category budgets are independent.  The segments emitted for a
\* category (which items, how truncated, whether a stop warning appears) are
\* those of packing the category's own items alone against its own budget
\* with a counter that starts at 0, whatever the other categories hold and
\* whether or not they exhausted their budgets.
C16_Independent ==
    ppc = "packed" => \A c \in CategorySet : SectionParts(c) = Alone(c)

C16_Witness ==
    /\ SectionDone("clinical")
    /\ HasWarning("theory")
    /\ ~HasWarning("clinical")
    /\ Len(files["clinical"]) = 2
    /\ Kinds(SectionParts("clinical")) = <<"begin", "file", "inline", "end">>
    /\ SectionParts("clinical")[2].chars = LIMIT_CLINICAL_CHARS - BinaryPenalty

(***************************************************************************)
(* Properties of two invocations in flight (SpecTwo)                       *)
(***************************************************************************)
\* what an invocation with retries n and initial delay d comes to when it
\* runs alone and call() settles to outs in turn; iv, le and ds are its loop
\* counter, last error and the delays it has waited
RECURSIVE AloneRun(_, _, _, _, _, _)
AloneRun(n, d, outs, iv, le, ds) ==
    IF ~LoopCond(iv, n)
    THEN [attempts |-> iv, delays |-> ds, result |-> Rejected(TerminalError(le))]
    ELSE LET o == outs[iv + 1] IN
         IF o.kind = "ok" \/ ~IsRateLimit(o.error)
         THEN [attempts |-> iv + 1, delays |-> ds, result |-> o]
         ELSE IF IsLastFail(iv, n)
         THEN [attempts |-> iv + 1, delays |-> ds,
               result |-> Rejected(TerminalError(<<o.error>>))]
         ELSE AloneRun(n, NextDelay(d), outs, iv + 1, <<o.error>>, Append(ds, d))
AloneOutcome(c) == AloneRun(c.retries, c.delay0, c.outcomes, 0, <<>>, <<>>)

\* C17: under every interleaving of two invocations of retryGeminiCall, the
\* number of attempts, the sequence of delays and the final outcome of each
\* are those of the invocation running alone with the same retries, the same
\* initial delay and the same outcomes of its own call().
C17_Isolated ==
    \A p \in DOMAIN calls :
       calls[p].pc = "done" =>
          /\ calls[p].attempts = AloneOutcome(calls[p]).attempts
          /\ calls[p].delays = AloneOutcome(calls[p]).delays
          /\ calls[p].result = AloneOutcome(calls[p]).result

C17_Witness ==
    /\ DOMAIN calls = Calls
    /\ \A p \in Calls : calls[p].pc = "done" /\ calls[p].overlapped
    /\ calls[1].delay0 = 1000 /\ calls[1].delays = <<1000, 2000>>
    /\ calls[2].delay0 = DefaultInitialDelay /\ calls[2].delays = <<DefaultInitialDelay>>
    /\ calls[1].result.kind = "ok"
    /\ calls[2].result = Rejected(NewError(QuotaExceededMessage))

====
